---- MODULE Spec2Model ----
(***************************************************************************)
(* Kingston voice server (src/src/voice/xtts/server.py): the voice profile *)
(* store on disk, the in-memory preset cache, the process-wide active      *)
(* voice, the lazily loaded Bark engine and the HTTP handlers /use, /tts,  *)
(* /clone and /extract-audio.                                              *)
(*                                                                         *)
(* The handlers are `async def` coroutines on one event loop: a handler    *)
(* runs without interruption up to its next `await` (clone_voice and       *)
(* extract_audio await the upload once; tts and use_voice never await).    *)
(* `running` is the handler that holds the event loop.                     *)
(*                                                                         *)
(* Names are sequences of one-character strings.  The content of an audio  *)
(* file is the request that uploaded it and its format; a preset is the    *)
(* audio it was derived from.                                              *)
(***************************************************************************)
EXTENDS Naturals, Sequences, FiniteSets

\* ---------------------------------------------------------------- bounds
\* Requests the server receives in one run (request ids are 1..MaxReqs).
MaxReqs == 2
\* The clock (milliseconds) runs from 0 to MaxTime.
MaxTime == 1

\* ------------------------------------------------------------ name values
\* Python None; FastAPI hands an empty form value to the handler as absent,
\* and `voice or active_voice` treats "" and None alike.
None == << >>

\* Raw names a client can send: a clean name, a name sanitization changes,
\* a name sanitization empties, and a name with the built-in "v2/" prefix.
Names == { <<"a">>, <<"a", "/">>, <<"/">>, <<"v", "2", "/", "f">> }

\* Upload file suffixes (Path(audio.filename).suffix or ".wav").
Exts == { ".wav", ".mp3" }

\* str.isalnum() on the characters of the model's alphabet.
IsAlnum(c) == c \in { "a", "f", "v", "2" }

\* A filter that removes the path separator only.
SafeCharLoose(c) == c # "/"

SafeChar(c) == IsAlnum(c) \/ c \in { "-", "_" }

\* get_voice_dir: the directory name under VOICES_DIR; << >> is VOICES_DIR
\* itself (VOICES_DIR / "" == VOICES_DIR).
get_voice_dir(name) == SelectSeq(name, SafeChar)

VOICES_DIR == << >>

Dirs == { get_voice_dir(n) : n \in Names } \cup { VOICES_DIR }

\* --------------------------------------------------------- file contents
NoAudio == [src |-> 0, fmt |-> "none"]

\* The bytes request r uploaded.
Upload(r) == [src |-> r, fmt |-> "raw"]

\* ffmpeg -ar 24000 -ac 1: the upload of request r as 24 kHz mono WAV.
Transcode(r) == [src |-> r, fmt |-> "wav24k"]

NoPreset == [from |-> NoAudio]

\* The EnCodec prompt of an audio file: a function of the waveform alone.
Encode(audio) == [from |-> audio]

\* meta.json, by the request that wrote it.
NoMeta == [written |-> FALSE, by |-> 0]

Meta(r) == [written |-> TRUE, by |-> r]

NoDir == [exists |-> FALSE, wav |-> NoAudio, mp3 |-> NoAudio,
          meta |-> NoMeta, preset |-> NoPreset]

EmptyDir == [NoDir EXCEPT !.exists = TRUE]

\* ------------------------------------------------------ the profile store
\* Path.write_bytes / ffmpeg / np.savez / write_text on one file of a
\* directory: the file's content is replaced, nothing else changes.
WriteRef(f, dir, ext, audio) ==
    IF ext = ".wav" THEN [f EXCEPT ![dir].wav = audio]
                    ELSE [f EXCEPT ![dir].mp3 = audio]

\* voice_dir.mkdir(parents=True, exist_ok=True)
Mkdir(f, dir) == [f EXCEPT ![dir].exists = TRUE]

Count(b) == IF b THEN 1 ELSE 0

\* list_voice_profiles (lines 68-89): one summary per sub-directory of
\* VOICES_DIR (VOICES_DIR itself is not one of them), here as a set: the
\* order of the listing is by name.
list_voice_profiles(f) ==
    { [name |-> d,
       meta |-> f[d].meta,
       audio_files |-> Count(f[d].wav # NoAudio) + Count(f[d].mp3 # NoAudio)
                       + Count(f[d].preset # NoPreset),
       has_preset |-> f[d].preset # NoPreset]
      : d \in { e \in Dirs : e # VOICES_DIR /\ f[e].exists } }

\* find_reference_audio (lines 92-101): the first *.wav, else the first
\* *.mp3, else None.
find_reference_audio(f, voice_name) ==
    LET voice_dir == get_voice_dir(voice_name)
    IN  IF ~f[voice_dir].exists THEN NoAudio
        ELSE IF f[voice_dir].wav # NoAudio THEN f[voice_dir].wav
        ELSE f[voice_dir].mp3

\* create_voice_preset without its last statement (the cache update).
create_voice_preset_uncached(f, cache, audio, voice_name, codec_ok) ==
    IF audio = NoAudio \/ ~codec_ok
    THEN [fs |-> f, cache |-> cache, preset |-> NoPreset]
    ELSE [fs |-> [f EXCEPT ![get_voice_dir(voice_name)].preset = Encode(audio)],
          cache |-> cache,
          preset |-> Encode(audio)]

\* create_voice_preset (lines 137-188) on the audio file `audio`: when the
\* file loads and the codec runs (codec_ok), the preset is saved in the
\* profile directory of voice_name and cached under voice_name; otherwise it
\* raises before writing anything (preset = NoPreset).
create_voice_preset(f, cache, audio, voice_name, codec_ok) ==
    IF audio = NoAudio \/ ~codec_ok
    THEN [fs |-> f, cache |-> cache, preset |-> NoPreset]
    ELSE [fs |-> [f EXCEPT ![get_voice_dir(voice_name)].preset = Encode(audio)],
          cache |-> [cache EXCEPT ![voice_name] = Encode(audio)],
          preset |-> Encode(audio)]

\* get_voice_preset (lines 191-214): the cache, then voice_preset.npz, then
\* a derivation from the reference audio.  `path` records the branch taken.
get_voice_preset(f, cache, voice_name, codec_ok) ==
    LET on_disk == f[get_voice_dir(voice_name)].preset
        ref == find_reference_audio(f, voice_name)
        made == create_voice_preset(f, cache, ref, voice_name, codec_ok)
    IN  IF cache[voice_name] # NoPreset
        THEN [fs |-> f, cache |-> cache, preset |-> cache[voice_name],
              path |-> "cache"]
        ELSE IF on_disk # NoPreset
        THEN [fs |-> f, cache |-> [cache EXCEPT ![voice_name] = on_disk],
              preset |-> on_disk, path |-> "disk"]
        ELSE IF ref # NoAudio
        THEN [fs |-> made.fs, cache |-> made.cache, preset |-> made.preset,
              path |-> IF made.preset # NoPreset THEN "derived"
                       ELSE "derive_failed"]
        ELSE [fs |-> f, cache |-> cache, preset |-> NoPreset,
              path |-> "no_reference"]

VARIABLES
    fs,             \* VOICES_DIR: directory name -> its files
    voice_presets,  \* the preset cache: raw name -> preset (NoPreset: no key)
    active_voice,   \* raw name or None
    bark_model,     \* 0 (None) or the handle of the loaded engine
    bark_processor, \* 0 (None) or the handle of the loaded processor
    loads,          \* how many times BarkModel.from_pretrained completed
    inflight,       \* the handlers that have started and not yet answered
    running,        \* id of the handler that holds the event loop, 0 if idle
    nextId,         \* id of the next request
    outputs,        \* OUTPUT_DIR: the generated files, <<voice_tag, ts>>
    now,            \* time.time() * 1000
    last,           \* the latest response sent
    calc            \* a call of one of the pure computations: input, result

vars == << fs, voice_presets, active_voice, bark_model, bark_processor, loads,
           inflight, running, nextId, outputs, now, last, calc >>

\* ------------------------------------------------------------ responses
Response(id, op, status, name) ==
    [id |-> id, op |-> op, status |-> status, name |-> name,
     has_preset |-> FALSE, vname |-> None, mode |-> "", path |-> "",
     prompt |-> NoPreset, pc |-> "", engine |-> 0]

\* VOICES_DIR outlives the process (line 37 keeps what is there).  What an
\* earlier run (request id 0) can have left: nothing; a profile "a" cloned
\* with a failed preset derivation; a profile "a" cloned with its preset.
EmptyStore == [d \in Dirs |-> IF d = VOICES_DIR THEN EmptyDir ELSE NoDir]

ClonedBefore(with_preset) ==
    [EmptyStore EXCEPT ![<<"a">>] =
        [exists |-> TRUE, wav |-> Transcode(0), mp3 |-> NoAudio,
         meta |-> Meta(0),
         preset |-> IF with_preset THEN Encode(Transcode(0)) ELSE NoPreset]]

InitStores == { EmptyStore, ClonedBefore(FALSE), ClonedBefore(TRUE) }

\* No pure computation is under way.
NoCalc == [fn |-> "none"]

Init ==
    /\ calc = NoCalc
    /\ fs \in InitStores
    /\ voice_presets = [n \in Names |-> NoPreset]
    /\ active_voice = None
    /\ bark_model = 0
    /\ bark_processor = 0
    /\ loads = 0
    /\ inflight = {}
    /\ running = 0
    /\ nextId = 1
    /\ outputs = {}
    /\ now = 0
    /\ last = Response(0, "none", 0, None)

\* Requests accepted while a handler is at work (handlers on worker threads).
AcceptWhileBusy == nextId <= MaxReqs

\* A new request can be accepted: the event loop is idle.
CanAccept == running = 0 /\ nextId <= MaxReqs

\* ------------------------------------------------------------------ /use
\* use_voice (lines 236-244).
use_voice(voice) ==
    /\ CanAccept
    /\ nextId' = nextId + 1
    /\ IF ~fs[get_voice_dir(voice)].exists
       THEN /\ last' = Response(nextId, "use", 404, voice)
            /\ UNCHANGED active_voice
       ELSE /\ active_voice' = voice
            /\ last' = Response(nextId, "use", 200, voice)
    /\ UNCHANGED << calc, fs, voice_presets, bark_model, bark_processor, loads,
                    inflight, running, outputs, now >>

\* ---------------------------------------------------------------- /clone
Request(id, kind, name, ext, pc) ==
    [id |-> id, kind |-> kind, name |-> name, ext |-> ext, pc |-> pc,
     vname |-> None, mode |-> "", path |-> "", prompt |-> NoPreset,
     engine |-> 0]

\* clone_voice up to `await audio.read()` (lines 329-336): the profile
\* directory is made, then the handler yields the event loop.
clone_voice_begin(name, ext) ==
    /\ CanAccept
    /\ nextId' = nextId + 1
    /\ fs' = Mkdir(fs, get_voice_dir(name))
    /\ inflight' = inflight \cup { Request(nextId, "clone", name, ext, "read") }
    /\ UNCHANGED << calc, voice_presets, active_voice, bark_model, bark_processor,
                    loads, running, outputs, now, last >>

\* clone_voice after the await (lines 337-382), in one piece: the upload is
\* written as reference<ext>, ffmpeg converts it to reference.wav
\* (ffmpeg_ok), the preset is derived (codec_ok), meta.json is written and
\* the voice becomes active.  A failed ffmpeg run is taken to leave
\* reference.wav as it was; the request goes on only if the upload is
\* itself reference.wav.
clone_voice_end(r, ffmpeg_ok, codec_ok) ==
    LET voice_dir == get_voice_dir(r.name)
        saved == WriteRef(fs, voice_dir, r.ext, Upload(r.id))
        converted == IF ffmpeg_ok
                     THEN WriteRef(saved, voice_dir, ".wav", Transcode(r.id))
                     ELSE saved
        made == create_voice_preset(converted, voice_presets,
                                    converted[voice_dir].wav, r.name, codec_ok)
        written == [made.fs EXCEPT ![voice_dir].meta = Meta(r.id)]
    IN  /\ running = 0
        /\ r.kind = "clone" /\ r.pc = "read"
        /\ inflight' = inflight \ {r}
        /\ IF ~ffmpeg_ok /\ r.ext # ".wav"
           THEN /\ fs' = saved
                /\ last' = Response(r.id, "clone", 500, r.name)
                /\ UNCHANGED << voice_presets, active_voice >>
           ELSE /\ fs' = written
                /\ voice_presets' = made.cache
                /\ active_voice' = r.name
                /\ last' = [Response(r.id, "clone", 200, r.name) EXCEPT
                              !.has_preset = written[voice_dir].preset # NoPreset,
                              !.path = IF made.preset # NoPreset
                                       THEN "derived" ELSE "derive_failed"]
        /\ UNCHANGED << calc, bark_model, bark_processor, loads, running, nextId,
                        outputs, now >>

\* -------------------------------------------------------- /extract-audio
\* extract_audio up to `await video.read()` (lines 393-398).
extract_audio_begin(voice_name) ==
    /\ CanAccept
    /\ nextId' = nextId + 1
    /\ fs' = Mkdir(fs, get_voice_dir(voice_name))
    /\ inflight' = inflight \cup
                     { Request(nextId, "extract", voice_name, ".wav", "read") }
    /\ UNCHANGED << calc, voice_presets, active_voice, bark_model, bark_processor,
                    loads, running, outputs, now, last >>

\* extract_audio after the await (lines 399-450).  The temporary video file
\* is written to OUTPUT_DIR and unlinked again before the handler yields.
extract_audio_end(r, ffmpeg_ok, codec_ok) ==
    LET voice_dir == get_voice_dir(r.name)
        converted == WriteRef(fs, voice_dir, ".wav", Transcode(r.id))
        made == create_voice_preset(converted, voice_presets,
                                    converted[voice_dir].wav, r.name, codec_ok)
        written == [made.fs EXCEPT ![voice_dir].meta = Meta(r.id)]
    IN  /\ running = 0
        /\ r.kind = "extract" /\ r.pc = "read"
        /\ inflight' = inflight \ {r}
        /\ IF ~ffmpeg_ok
           THEN /\ last' = Response(r.id, "extract", 500, r.name)
                /\ UNCHANGED << fs, voice_presets, active_voice >>
           ELSE /\ fs' = written
                /\ voice_presets' = made.cache
                /\ active_voice' = r.name
                /\ last' = [Response(r.id, "extract", 200, r.name) EXCEPT
                              !.has_preset = written[voice_dir].preset # NoPreset,
                              !.path = IF made.preset # NoPreset
                                       THEN "derived" ELSE "derive_failed"]
        /\ UNCHANGED << calc, bark_model, bark_processor, loads, running, nextId,
                        outputs, now >>

\* ------------------------------------------------------------------ /tts
\* The outcomes of one run of load_model's loading code (lines 111-134).
LoadOutcomes == { "ok", "processor_fails", "model_fails", "offload_fails" }

\* load_model without its test of bark_model.
AlwaysLoad(model) == TRUE

\* load_model's test `bark_model is not None` (line 108), negated.
MustLoad(model) == model = 0

\* load_model (lines 104-134), called by request `id`: the handles and the
\* load count afterwards, and whether it returned (ok) or raised.  A handle
\* is the id of the request whose call created the object.
load_model(model, processor, n, id, outcome) ==
    IF ~MustLoad(model)
    THEN [model |-> model, processor |-> processor, loads |-> n, ok |-> TRUE]
    ELSE IF outcome = "processor_fails"
    THEN [model |-> model, processor |-> processor, loads |-> n, ok |-> FALSE]
    ELSE IF outcome = "model_fails"
    THEN [model |-> model, processor |-> id, loads |-> n, ok |-> FALSE]
    ELSE [model |-> id, processor |-> id, loads |-> n + 1,
          ok |-> outcome = "ok"]

\* voice_name.startswith("v2/") (line 266)
IsBuiltin(voice_name) ==
    Len(voice_name) >= 3 /\ SubSeq(voice_name, 1, 3) = <<"v", "2", "/">>

\* The active voice taking precedence over the explicit one.
ActiveFirst(voice, active) == IF active # None THEN active ELSE voice

\* voice or active_voice (line 254)
EffectiveVoice(voice, active) == IF voice # None THEN voice ELSE active

\* tts, lines 254-256: the voice name is resolved and the engine loaded.  The
\* handler holds the event loop until it answers.
tts_begin(voice, outcome) ==
    LET voice_name == EffectiveVoice(voice, active_voice)
        loaded == load_model(bark_model, bark_processor, loads, nextId, outcome)
        r == [Request(nextId, "tts", voice, "", "resolve") EXCEPT
                 !.vname = voice_name, !.engine = loaded.model]
    IN  /\ CanAccept
        /\ nextId' = nextId + 1
        /\ bark_model' = loaded.model
        /\ bark_processor' = loaded.processor
        /\ loads' = loaded.loads
        /\ IF loaded.ok
           THEN /\ inflight' = inflight \cup {r}
                /\ running' = r.id
                /\ UNCHANGED last
           ELSE /\ last' = [Response(r.id, "tts", 500, voice) EXCEPT
                               !.vname = voice_name, !.mode = "load_failed"]
                /\ UNCHANGED << inflight, running >>
        /\ UNCHANGED << calc, fs, voice_presets, active_voice, outputs, now >>

\* tts, lines 258-279: the prompt handed to the processor.
tts_resolve(r, codec_ok) ==
    LET got == get_voice_preset(fs, voice_presets, r.vname, codec_ok)
    IN  /\ running = r.id
        /\ r.kind = "tts" /\ r.pc = "resolve"
        /\ IF r.vname # None /\ IsBuiltin(r.vname)
           THEN /\ inflight' = (inflight \ {r}) \cup
                     { [r EXCEPT !.pc = "generate", !.mode = "builtin",
                                 !.path = "none"] }
                /\ UNCHANGED << fs, voice_presets >>
           ELSE IF r.vname # None
           THEN /\ fs' = got.fs
                /\ voice_presets' = got.cache
                /\ inflight' = (inflight \ {r}) \cup
                     { [r EXCEPT !.pc = "generate", !.path = got.path,
                                 !.prompt = got.preset,
                                 !.mode = IF got.preset # NoPreset
                                          THEN "cloned" ELSE "default"] }
           ELSE /\ inflight' = (inflight \ {r}) \cup
                     { [r EXCEPT !.pc = "generate", !.mode = "default",
                                 !.path = "none"] }
                /\ UNCHANGED << fs, voice_presets >>
        /\ UNCHANGED << calc, active_voice, bark_model, bark_processor, loads,
                        running, nextId, outputs, now, last >>

TtsResponse(r, status) ==
    [Response(r.id, "tts", status, r.name) EXCEPT
        !.vname = r.vname, !.mode = r.mode, !.path = r.path,
        !.prompt = r.prompt, !.pc = r.pc, !.engine = r.engine]

\* tts, lines 281-292: model.generate runs while pc = "generate" and either
\* returns the waveform or raises.
tts_generate(r, engine_ok) ==
    /\ running = r.id
    /\ r.kind = "tts" /\ r.pc = "generate"
    /\ IF engine_ok
       THEN /\ inflight' = (inflight \ {r}) \cup { [r EXCEPT !.pc = "save"] }
            /\ UNCHANGED << running, last >>
       ELSE /\ inflight' = inflight \ {r}
            /\ running' = 0
            /\ last' = TtsResponse([r EXCEPT !.pc = "generate_failed"], 500)
    /\ UNCHANGED << calc, fs, voice_presets, active_voice, bark_model,
                    bark_processor, loads, nextId, outputs, now >>

DefaultTag == <<"d", "e", "f", "a", "u", "l", "t">>

\* OUTPUT_DIR / f"tts_{voice_tag}_{ts}.wav" names a file of OUTPUT_DIR unless
\* voice_tag holds a path separator: then it names a file of a directory
\* tts_... of OUTPUT_DIR, which nothing creates.
InOutputDir(voice_tag) == \A i \in 1..Len(voice_tag) : voice_tag[i] # "/"

\* tts, lines 294-318: the clock is read (it never runs backwards), the
\* waveform is saved under the voice tag and the time, the file is returned.
tts_save(r, ts) ==
    LET voice_tag == IF r.vname # None THEN r.vname ELSE DefaultTag
    IN  /\ running = r.id
        /\ r.kind = "tts" /\ r.pc = "save"
        /\ ts >= now
        /\ now' = ts
        /\ inflight' = inflight \ {r}
        /\ running' = 0
        /\ IF InOutputDir(voice_tag)
           THEN /\ outputs' = outputs \cup { <<voice_tag, ts>> }
                /\ last' = TtsResponse([r EXCEPT !.pc = "saved"], 200)
           ELSE /\ UNCHANGED outputs
                /\ last' = TtsResponse([r EXCEPT !.pc = "save_failed"], 500)
        /\ UNCHANGED << calc, fs, voice_presets, active_voice, bark_model,
                        bark_processor, loads, nextId >>

Next ==
    \/ \E voice \in Names : use_voice(voice)
    \/ \E name \in Names, ext \in Exts : clone_voice_begin(name, ext)
    \/ \E r \in inflight, ffmpeg_ok \in BOOLEAN, codec_ok \in BOOLEAN :
          clone_voice_end(r, ffmpeg_ok, codec_ok)
    \/ \E voice_name \in Names : extract_audio_begin(voice_name)
    \/ \E r \in inflight, ffmpeg_ok \in BOOLEAN, codec_ok \in BOOLEAN :
          extract_audio_end(r, ffmpeg_ok, codec_ok)
    \/ \E voice \in Names \cup {None}, outcome \in LoadOutcomes :
          tts_begin(voice, outcome)
    \/ \E r \in inflight, codec_ok \in BOOLEAN : tts_resolve(r, codec_ok)
    \/ \E r \in inflight, engine_ok \in BOOLEAN : tts_generate(r, engine_ok)
    \/ \E r \in inflight, ts \in 0..MaxTime : tts_save(r, ts)

Spec == Init /\ [][Next]_vars

\* =============================================================== properties
\* The names GET /voices lists.
ProfileNames(f) == { p.name : p \in list_voice_profiles(f) }

\* This step sends the response of a handler of kind op.
Answers(op) == last'.id # last.id /\ last'.op = op

TtsInFlight == { q \in inflight : q.kind = "tts" }

\* ----------------------------------------------------------------------- C1
\* C1: POST /use with a voice name whose profile does not exist (no listed
\* profile has its sanitized name) answers 404 and leaves the active voice
\* as it was.
C1_UnknownVoiceRejected ==
    [][ (Answers("use") /\ get_voice_dir(last'.name) \notin ProfileNames(fs))
          => (last'.status = 404 /\ active_voice' = active_voice) ]_vars

\* ----------------------------------------------------------------------- C2
\* C2: in every reachable state the active voice is None or the name of a
\* profile that GET /voices lists.
C2_ActiveIsListed ==
    active_voice = None \/ active_voice \in ProfileNames(fs)

\* ----------------------------------------------------------------------- C3
\* The voice name a tts handler works with follows the priority explicit
\* name > active voice > none.
Priority(q) ==
    /\ q.name # None => q.vname = q.name
    /\ (q.name = None /\ active_voice # None) => q.vname = active_voice
    /\ (q.name = None /\ active_voice = None) => q.vname = None

Resolved == { q \in TtsInFlight : q.pc \in {"generate", "save"} }

\* The name begins with the reserved prefix of the engine's own presets.
Reserved(n) == Len(n) >= 3 /\ n[1] = "v" /\ n[2] = "2" /\ n[3] = "/"

\* C3 (as amended): the voice name is the explicit name if one is given, else
\* the active voice, else none; a name with the "v2/" prefix, explicit or
\* active, goes to the engine as a built-in tag; any other name is a profile
\* whose prompt is used when there is one; and the default voice (no prompt)
\* is used exactly when no name is set or the named profile yields no prompt.
C3_Resolution ==
    \A q \in Resolved :
        /\ Priority(q)
        /\ q.mode = "builtin" <=>
              (q.vname # None /\ Reserved(q.vname))
        /\ q.mode = "cloned" <=>
              (q.vname # None /\ ~Reserved(q.vname) /\ q.prompt # NoPreset)
        /\ q.mode = "cloned" => q.prompt = voice_presets[q.vname]
        /\ q.mode = "default" <=>
              (q.vname = None \/ (~Reserved(q.vname) /\ q.prompt = NoPreset))

\* C3 as stated: the priority, and the default voice only when neither an
\* explicit voice nor an active voice is set.
C3_DefaultOnlyWhenUnset ==
    \A q \in Resolved :
        /\ Priority(q)
        /\ q.mode = "default" => (q.name = None /\ active_voice = None)

\* An explicit profile name overrides a different active voice and its
\* prompt is used.
C3_Witness ==
    \E q \in Resolved :
        /\ q.name # None /\ active_voice # None /\ active_voice # q.name
        /\ q.mode = "cloned"

\* ----------------------------------------------------------------------- C4
\* C4: a /tts whose explicit voice is a built-in tag looks nothing up,
\* derives nothing and, once the engine has produced the waveform, succeeds:
\* the output is persisted and returned.
C4_BuiltinSucceeds ==
    (last.op = "tts" /\ last.name # None /\ IsBuiltin(last.name)
       /\ last.pc \in {"saved", "save_failed"})
      => (last.path = "none" /\ last.prompt = NoPreset /\ last.status = 200)

\* ----------------------------------------------------------------------- C5
HasReference(f, n) ==
    LET d == f[get_voice_dir(n)]
    IN  d.exists /\ (d.wav # NoAudio \/ d.mp3 # NoAudio)

\* C5: a synthesis that resolves to a profile name takes the prompt from the
\* cache if it is there, else from the persisted artifact if it is there,
\* and derives it only if both are missing and reference audio exists; a
\* successful derivation leaves the prompt on disk and in the cache; a cached
\* prompt is never dropped, so a later synthesis for the name finds it in the
\* cache and derives nothing.
C5_LookupOrder ==
    [][ /\ \A n \in Names :
              voice_presets[n] # NoPreset => voice_presets'[n] # NoPreset
        /\ \A q \in inflight, q2 \in inflight' :
              (q.kind = "tts" /\ q.pc = "resolve" /\ q2.id = q.id
                 /\ q2.pc = "generate" /\ q2.mode # "builtin"
                 /\ q.vname # None)
              => LET n == q.vname
                     d == get_voice_dir(n)
                 IN  /\ q2.path = "cache" <=> voice_presets[n] # NoPreset
                     /\ q2.path = "disk" <=>
                           (voice_presets[n] = NoPreset
                              /\ fs[d].preset # NoPreset)
                     /\ q2.path \in {"derived", "derive_failed"} <=>
                           (voice_presets[n] = NoPreset
                              /\ fs[d].preset = NoPreset
                              /\ HasReference(fs, n))
                     /\ q2.path = "cache" =>
                           (q2.prompt = voice_presets[n] /\ fs' = fs
                              /\ voice_presets' = voice_presets)
                     /\ q2.path = "disk" =>
                           (q2.prompt = fs[d].preset /\ fs' = fs
                              /\ voice_presets'[n] = q2.prompt)
                     /\ q2.path = "derived" =>
                           (q2.prompt # NoPreset
                              /\ fs'[d].preset = q2.prompt
                              /\ voice_presets'[n] = q2.prompt)
      ]_vars

\* A synthesis has derived the prompt of a profile and answered, and the
\* next synthesis for the same name has taken it from the cache.
C5_Witness ==
    /\ last.op = "tts" /\ last.path = "derived" /\ last.status = 200
    /\ \E q \in Resolved :
          q.vname = last.vname /\ q.path = "cache" /\ q.prompt = last.prompt

\* ----------------------------------------------------------------------- C6
\* C6: a failed prompt derivation fails no request: the /clone or
\* /extract-audio it happens in saves reference audio and metadata, makes the
\* profile active and answers 200 with has_preset false, the profile being
\* without a prompt; the /tts it happens in goes on with no prompt.
C6_DerivationFailureHarmless ==
    [][ /\ (Answers("clone") \/ Answers("extract"))
             /\ last'.path = "derive_failed"
           => LET d == fs'[get_voice_dir(last'.name)]
              IN  /\ last'.status = 200
                  /\ active_voice' = last'.name
                  /\ d.wav.src = last'.id
                  /\ d.meta = Meta(last'.id)
                  /\ ~last'.has_preset
                  /\ d.preset = NoPreset
        /\ \A q \in inflight' :
              (q.kind = "tts" /\ q.path = "derive_failed")
                => (q.mode = "default" /\ q.prompt = NoPreset)
      ]_vars

\* ----------------------------------------------------------------------- C7
\* C7: after a /clone or /extract-audio that answers 200 for name n,
\* GET /voices lists a profile named n with has_preset equal to the presence
\* of voice_preset.npz, and reports n as active.
C7_ClonedIsListed ==
    [][ ((Answers("clone") \/ Answers("extract")) /\ last'.status = 200)
          => /\ active_voice' = last'.name
             /\ \E p \in list_voice_profiles(fs') :
                   /\ p.name = last'.name
                   /\ p.has_preset = (fs'[p.name].preset # NoPreset)
      ]_vars

\* ----------------------------------------------------------------------- C8
\* The directory holds a reference file of request x with the metadata of
\* request y.
Mixed(d, x, y) ==
    d.meta = Meta(y) /\ (d.wav.src = x \/ d.mp3.src = x)

\* The name is its own directory name: sanitization leaves it as it is.
Clean(n) == get_voice_dir(n) = n

\* C8: when two /clone requests with the same (clean) name have both
\* answered, whatever the interleaving and the outcome of each, the profile
\* directory does not hold a reference file of one with the metadata of the
\* other.
C8_NoMixedProfile ==
    [][ (Answers("clone") /\ last.op = "clone" /\ last'.name = last.name
           /\ Clean(last'.name))
          => LET d == fs'[get_voice_dir(last'.name)]
             IN  ~Mixed(d, last.id, last'.id) /\ ~Mixed(d, last'.id, last.id)
      ]_vars

\* ----------------------------------------------------------------------- C9
\* C9: a /clone or /extract-audio (of a clean name) that fails with a
\* transcoding error leaves the stored profiles (the one of its own name
\* included) and the active voice as they were.
C9_FailedCloneChangesNothing ==
    [][ ((Answers("clone") \/ Answers("extract")) /\ last'.status = 500
           /\ Clean(last'.name))
          => (fs' = fs /\ active_voice' = active_voice) ]_vars

\* ---------------------------------------------------------------------- C10
\* C10: the engine is loaded at most once and, once loaded, stays: the
\* handles and the load count never change after the load, and every tts
\* handler that got past load_model works with that one engine.
C10_LoadedOnce ==
    [][ /\ bark_model # 0 =>
              (bark_model' = bark_model /\ bark_processor' = bark_processor
                 /\ loads' = loads)
        /\ loads' <= 1
        /\ (loads' = 1) <=> (bark_model' # 0)
        /\ \A q \in inflight' :
              q.kind = "tts" => (q.engine = bark_model' /\ q.engine # 0)
      ]_vars

\* The second /tts request has answered using the engine the first loaded.
C10_Witness ==
    /\ last.op = "tts" /\ last.status = 200
    /\ last.id = 2 /\ last.engine = 1 /\ bark_model = 1 /\ loads = 1

\* ---------------------------------------------------------------------- C11
\* C11: when a step of load_model fails, the request fails and the loader is
\* left Unloaded (bark_model is None, /health reports model_loaded false).
C11_FailedLoadLeavesUnloaded ==
    [][ (Answers("tts") /\ last'.mode = "load_failed")
          => (last'.status = 500 /\ bark_model' = 0) ]_vars

\* ---------------------------------------------------------------------- C12
\* C12: invocations of the engine are serialized: at most one tts handler is
\* in model.generate at any time, and no other tts handler has started while
\* one is at work.
C12_EngineSerialized ==
    /\ Cardinality({ q \in TtsInFlight : q.pc = "generate" }) <= 1
    /\ Cardinality(TtsInFlight) <= 1
    /\ \A q \in TtsInFlight : running = q.id

\* A second /tts is in model.generate after the first has answered, with a
\* /clone possibly waiting for its upload.
C12_Witness ==
    /\ last.op = "tts" /\ last.pc = "saved"
    /\ \E q \in TtsInFlight : q.pc = "generate" /\ q.id = last.id + 1

\* ---------------------------------------------------------------------- C13
\* C13: the persisted prompt of a profile is the derivation of its current
\* reference audio, and so is the prompt a synthesis uses.
C13_PromptOfCurrentAudio ==
    /\ \A n \in Names :
          fs[get_voice_dir(n)].preset # NoPreset
            => fs[get_voice_dir(n)].preset = Encode(find_reference_audio(fs, n))
    /\ \A q \in Resolved :
          q.mode = "cloned"
            => q.prompt = Encode(find_reference_audio(fs, q.vname))

\* ---------------------------------------------------------------------- C14
\* C14: when /clone has stored a profile under one name, a /clone under a
\* different name with the same sanitized name does not succeed silently.
C14_NoSilentCollision ==
    [][ (Answers("clone") /\ last.op = "clone" /\ last.status = 200
           /\ last'.name # last.name
           /\ get_voice_dir(last'.name) = get_voice_dir(last.name))
          => last'.status # 200 ]_vars

\* ---------------------------------------------------------------------- C16
\* C16: a /tts that answers 200 adds exactly one file to OUTPUT_DIR and
\* removes or replaces none.
C16_OneNewFilePerCall ==
    [][ (Answers("tts") /\ last'.status = 200)
          => (outputs \subseteq outputs'
                /\ Cardinality(outputs') = Cardinality(outputs) + 1) ]_vars

\* ---------------------------------------------------------------------- C20
\* C20: every prompt in the preset cache equals the prompt artifact
\* persisted in the directory its name maps to.
C20_CacheCoherent ==
    \A n \in Names :
        voice_presets[n] # NoPreset
          => voice_presets[n] = fs[get_voice_dir(n)].preset

\* ================================================== the pure computations
\* The server's variables, idle as at start-up with an empty store; the
\* specifications of the pure computations leave them alone.
server == << fs, voice_presets, active_voice, bark_model, bark_processor,
             loads, inflight, running, nextId, outputs, now, last >>

Idle ==
    /\ fs = EmptyStore
    /\ voice_presets = [n \in Names |-> NoPreset]
    /\ active_voice = None
    /\ bark_model = 0
    /\ bark_processor = 0
    /\ loads = 0
    /\ inflight = {}
    /\ running = 0
    /\ nextId = 1
    /\ outputs = {}
    /\ now = 0
    /\ last = Response(0, "none", 0, None)

\* ---------------------------------------------------------------------- C15
\* Longest name given to get_voice_dir.
MaxLen == 3

\* Characters of the names: a letter, a digit, the two allowed marks, the
\* path separator and a blank.
Alphabet == { "a", "2", "-", "_", "/", " " }

Texts(n) == UNION { [1..k -> Alphabet] : k \in 0..n }

SanitizeInit ==
    /\ Idle
    /\ calc \in { [fn |-> "get_voice_dir", arg |-> x, done |-> FALSE,
                    once |-> << >>, twice |-> << >>] : x \in Texts(MaxLen) }

\* get_voice_dir applied to the name, and again to its own result.
get_voice_dir_call ==
    /\ ~calc.done
    /\ calc' = [calc EXCEPT !.done = TRUE,
                            !.once = get_voice_dir(calc.arg),
                            !.twice = get_voice_dir(get_voice_dir(calc.arg))]
    /\ UNCHANGED server

SanitizeNext == get_voice_dir_call

SanitizeSpec == SanitizeInit /\ [][SanitizeNext]_vars

\* The characters a directory name may hold, of those of the model.
AllowedChars == { "a", "f", "v", "2", "-", "_" }

\* C15: sanitizing a sanitized name changes nothing, and a sanitized name
\* holds only alphanumeric characters, '-' and '_'.
C15_SanitizeIdempotentClosed ==
    calc.done =>
        /\ calc.twice = calc.once
        /\ \A i \in 1..Len(calc.once) : calc.once[i] \in AllowedChars

\* A name that sanitization shortens without emptying it.
C15_Witness ==
    /\ calc.done
    /\ calc.once # calc.arg
    /\ calc.once # << >>

\* ---------------------------------------------------------------------- C17
\* Reference clips are taken with 0..Margin samples and with up to Margin
\* samples less or more than the cap.
Margin == 60

\* encodec_model.sample_rate of EncodecModel.encodec_model_24khz().
sample_rate == 24000

\* Samples per codec frame of the 24 kHz model (75 frames a second).
hop_length == 320

max_samples == sample_rate * 10

\* A waveform after convert_audio: the samples first..last of the clip.
Waveform(n) == [first |-> 1, last |-> n]

Samples(w) == w.last - w.first + 1

ClipLengths ==
    (0..Margin) \cup ((max_samples - Margin)..(max_samples + Margin))

\* The waveform passed to the codec as it is.
trim_none(w) == w

\* Lines 155-157: waveform[..., :max_samples] when the clip is longer.
trim(w) ==
    IF Samples(w) > max_samples
    THEN [w EXCEPT !.last = w.first + max_samples - 1]
    ELSE w

\* Frames of encodec_model.encode for a waveform: one per hop, the last
\* one padded.
n_frames(w) == (Samples(w) + hop_length - 1) \div hop_length

TrimInit ==
    /\ Idle
    /\ calc \in { [fn |-> "trim", arg |-> Waveform(n), done |-> FALSE,
                    out |-> Waveform(0), frames |-> 0] : n \in ClipLengths }

\* create_voice_preset from the converted waveform to the encoded frames.
trim_call ==
    /\ ~calc.done
    /\ calc' = [calc EXCEPT !.done = TRUE,
                            !.out = trim(calc.arg),
                            !.frames = n_frames(trim(calc.arg))]
    /\ UNCHANGED server

TrimNext == trim_call

TrimSpec == TrimInit /\ [][TrimNext]_vars

\* C17: the waveform given to the codec has at most 10 seconds of samples;
\* a longer clip is cut to exactly its first 10 seconds, a shorter one is
\* passed unchanged, every clip is encoded, and the frame count is at most
\* that of a 10-second clip.
C17_TruncationLaw ==
    calc.done =>
        /\ Samples(calc.out) <= 10 * sample_rate
        /\ Samples(calc.arg) > 10 * sample_rate
              => calc.out = Waveform(10 * sample_rate)
        /\ Samples(calc.arg) <= 10 * sample_rate => calc.out = calc.arg
        /\ calc.frames <= n_frames(Waveform(10 * sample_rate))

\* A clip longer than 10 seconds has been cut.
C17_Witness ==
    /\ calc.done
    /\ Samples(calc.arg) > 10 * sample_rate
    /\ calc.out # calc.arg

\* ---------------------------------------------------------------------- C18
\* Reference clips 1..MaxClips, each encoded to 0..MaxFrames frames.
MaxClips == 8

MaxFrames == 6

\* Codebooks of the 24 kHz codec at set_target_bandwidth(6.0).
n_codebooks == 8

\* encoded_frames[0][0].squeeze(0): the code of codebook k at frame j of the
\* clip, one row per codebook.
Codes(clip, n) ==
    [k \in 1..n_codebooks |-> [j \in 1..n |-> << clip, k, j >>]]

Min(x, y) == IF x < y THEN x ELSE y

\* The tiers with the semantic prompt taken from the second codebook.
tiers_second_row(codes) ==
    [fine_prompt |-> codes,
     coarse_prompt |-> [k \in 1..Min(2, Len(codes)) |-> codes[k]],
     semantic_prompt |-> codes[2]]

\* Lines 168-177: fine_prompt is the grid, coarse_prompt = fine_prompt[:2, :],
\* semantic_prompt = fine_prompt[0, :].
tiers(codes) ==
    [fine_prompt |-> codes,
     coarse_prompt |-> [k \in 1..Min(2, Len(codes)) |-> codes[k]],
     semantic_prompt |-> codes[1]]

NoTiers == tiers(Codes(0, 0))

TiersInit ==
    /\ Idle
    /\ calc \in { [fn |-> "tiers", clip |-> c, frames |-> n,
                    derived |-> 0, preset |-> NoTiers, again |-> NoTiers]
                   : c \in 1..MaxClips, n \in 0..MaxFrames }

\* create_voice_preset on the reference clip.
derive_call ==
    /\ calc.derived = 0
    /\ calc' = [calc EXCEPT !.derived = 1,
                            !.preset = tiers(Codes(calc.clip, calc.frames))]
    /\ UNCHANGED server

\* create_voice_preset on the same reference clip once more.
rederive_call ==
    /\ calc.derived = 1
    /\ calc' = [calc EXCEPT !.derived = 2,
                            !.again = tiers(Codes(calc.clip, calc.frames))]
    /\ UNCHANGED server

TiersNext == derive_call \/ rederive_call

TiersSpec == TiersInit /\ [][TiersNext]_vars

\* Rows and columns of a grid whose rows all have n columns.
IsGrid(g, rows, n) ==
    /\ Len(g) = rows
    /\ \A k \in 1..rows : Len(g[k]) = n

Shapes(p) ==
    << Len(p.semantic_prompt),
       [k \in 1..Len(p.coarse_prompt) |-> Len(p.coarse_prompt[k])],
       [k \in 1..Len(p.fine_prompt) |-> Len(p.fine_prompt[k])] >>

MaxSamples == 3

MaxAmp == 2

\* Samples are fixed-point numbers in hundredths: One is 1.0.
One == 100

\* The target peak 0.95 of line 305, in hundredths.
Gain == 95

Abs(x) == IF x < 0 THEN 0 - x ELSE x

\* np.abs(audio).max()
AbsMax(audio) ==
    CHOOSE m \in { Abs(audio[i]) : i \in 1..Len(audio) } :
        \A i \in 1..Len(audio) : Abs(audio[i]) <= m

\* x * num / den rounded towards zero, for either sign of x.
MulDiv(x, num, den) ==
    IF x < 0 THEN 0 - ((Abs(x) * num) \div den) ELSE (x * num) \div den

\* The waveform scaled to a peak of 1.0.
normalize_unity(audio) ==
    IF AbsMax(audio) > 0
    THEN [i \in 1..Len(audio) |-> MulDiv(audio[i], One, AbsMax(audio))]
    ELSE audio

\* Lines 304-305: audio / np.abs(audio).max() * 0.95 when the peak is not 0.
normalize(audio) ==
    IF AbsMax(audio) > 0
    THEN [i \in 1..Len(audio) |->
              MulDiv(MulDiv(audio[i], One, AbsMax(audio)), Gain, One)]
    ELSE audio

GeneratedWaveforms ==
    UNION { [1..k -> (0 - MaxAmp)..MaxAmp] : k \in 1..MaxSamples }

NormalizeInit ==
    /\ Idle
    /\ calc \in { [fn |-> "normalize", audio |-> a, done |-> FALSE,
                    out |-> << >>] : a \in GeneratedWaveforms }

\* tts from the generated waveform to the tensor that is saved.
normalize_call ==
    /\ ~calc.done
    /\ calc' = [calc EXCEPT !.done = TRUE, !.out = normalize(calc.audio)]
    /\ UNCHANGED server

NormalizeNext == normalize_call

NormalizeSpec == NormalizeInit /\ [][NormalizeNext]_vars

Silent(audio) == \A i \in 1..Len(audio) : audio[i] = 0

\* C19: the saved waveform of a non-silent generated waveform has a largest
\* absolute sample of 0.95, and an all-zero waveform is saved as it is.
C19_NormalizationLaw ==
    calc.done =>
        /\ Len(calc.out) = Len(calc.audio)
        /\ ~Silent(calc.audio) =>
              /\ \A i \in 1..Len(calc.out) : Abs(calc.out[i]) <= 95
              /\ \E i \in 1..Len(calc.out) : Abs(calc.out[i]) = 95
        /\ Silent(calc.audio) => calc.out = calc.audio

\* A waveform with samples of both signs and different sizes has been
\* normalized.
C19_Witness ==
    /\ calc.done
    /\ \E i, j \in 1..Len(calc.audio) :
          /\ calc.audio[i] < 0 /\ calc.audio[j] > 0
          /\ Abs(calc.audio[i]) # Abs(calc.audio[j])

====
